---------------------------- MODULE Spec2Model ----------------------------
(***************************************************************************)
(* A model of the MOT decode pipeline of src/src/mot/__init__.py: the      *)
(* segment cache, is_complete, decode_directory_object, compile_object and *)
(* the decode_objects generator.                                           *)
(*                                                                         *)
(* Byte strings are sequences of integers 0..255 and a bitarray built by   *)
(* frombytes is read through Bit/SliceInt, MSB first.  The cache is a      *)
(* Python dict: a sequence of [k, v] items in insertion order.  A Python   *)
(* exception is the value of a result record with ok = FALSE; an exception *)
(* that leaves decode_objects ends the generator (status = "raised").      *)
(*                                                                         *)
(* Reading of the source: decode_objects is followed on its list/generator *)
(* branch, '' + bytes is byte-string concatenation, and a Datagroup (class *)
(* of the msc package) is a truthy object that compares by value.          *)
(***************************************************************************)
EXTENDS Integers, Sequences, FiniteSets, TLC

\* Number of inbound datagroups one decode_objects run is followed for.
MaxSteps == 4
\* The same for a run that reads datagroups of Interleaved alone.
MaxInterleaved == 6

None == "None"

\* The value of a failed int('', 2): a slice that holds no bit.
NoBits == -1

Min(a, b) == IF a < b THEN a ELSE b

\* 2^n for the bit positions of a byte, n in 0..7.
Pow2(n) == <<1, 2, 4, 8, 16, 32, 64, 128>>[n + 1]

\* F applied to the value of v: v is evaluated once, however often F reads it.
Bind(v, F(_)) == CHOOSE y \in {F(x) : x \in {v}} : TRUE

RECURSIVE Concat(_)
\* The concatenation of a sequence of byte strings.
Concat(ss) == IF ss = <<>> THEN <<>> ELSE Head(ss) \o Concat(Tail(ss))

-----------------------------------------------------------------------------
(* bitarray: frombytes, slices, int(bits.to01(), 2), int2ba, tobytes *)

NBits(data) == 8 * Len(data)

\* bits[i] of a bitarray filled by frombytes(data).
Bit(data, i) == (data[(i \div 8) + 1] \div Pow2(7 - (i % 8))) % 2

RECURSIVE BitsVal(_, _, _)
\* int(bits[a:b].to01(), 2) of a slice that holds a bit.  The slice is read
\* in halves, so a field of w bits nests about log2(w) deep.
BitsVal(data, a, b) ==
    IF b <= a THEN 0
    ELSE IF b = a + 1 THEN Bit(data, a)
    ELSE LET m == (a + b) \div 2
         IN  BitsVal(data, a, m) * 2 ^ (b - m) + BitsVal(data, m, b)

\* int(bits[a:b].to01(), 2): a Python slice stops at the end of the bitarray,
\* and int() of the empty string raises ValueError.
SliceInt(data, a, b) ==
    Bind(Min(b, NBits(data)),
         LAMBDA e : IF a >= e THEN NoBits ELSE BitsVal(data, a, e))

\* data[a:] of a byte string, a counted in bytes.
BytesFrom(data, a) == SubSeq(data, a + 1, Len(data))

\* int2ba(n, w): n as w bits, MSB first, for 0 <= n < 2^31.
int2ba(n, w) ==
    [i \in 1..w |-> IF w - i > 30 THEN 0 ELSE (n \div 2 ^ (w - i)) % 2]

RECURSIVE BitsToBytes(_)
\* bitarray.tobytes(): the bits packed eight to a byte, zero padded.
BitsToBytes(bits) ==
    IF bits = <<>> THEN <<>>
    ELSE IF Len(bits) < 8 THEN Bind(Append(bits, 0), LAMBDA padded : BitsToBytes(padded))
    ELSE LET b == bits[1] * 128 + bits[2] * 64 + bits[3] * 32 + bits[4] * 16
                  + bits[5] * 8 + bits[6] * 4 + bits[7] * 2 + bits[8]
         IN  Bind(SubSeq(bits, 9, Len(bits)), LAMBDA rest : <<b>> \o BitsToBytes(rest))

-----------------------------------------------------------------------------
(* Times: encode_relative_time, encode_absolute_time *)

\* A timedelta of whole seconds: days and seconds as timedelta
\* normalises them.
timedelta(total_seconds) ==
    [days |-> total_seconds \div 86400, seconds |-> total_seconds % 86400]

\* offset < timedelta(minutes=m)
LessThanMinutes(offset, m) == offset.days * 86400 + offset.seconds < m * 60

\* encode_relative_time(offset): [ok |-> TRUE, bytes], or ok = FALSE for
\* the ValueError of the last branch.  int(x / y) of non-negative numbers
\* is the floor of the quotient.
encode_relative_time(offset) ==
    IF LessThanMinutes(offset, 127)
    THEN LET minutes == offset.seconds \div 60
             two_minutes == minutes \div 2
         IN  [ok |-> TRUE,
              bytes |-> BitsToBytes(int2ba(0, 2) \o int2ba(two_minutes, 6))]
    ELSE IF LessThanMinutes(offset, 1891)
    THEN LET minutes == offset.seconds \div 60
             halfhours == minutes \div 30
         IN  [ok |-> TRUE,
              bytes |-> BitsToBytes(int2ba(1, 2) \o int2ba(halfhours, 6))]
    ELSE IF LessThanMinutes(offset, 127 * 60)
    THEN LET hours == (offset.seconds + offset.days * 24 * 3600) \div 3600
             twohours == hours \div 2
         IN  [ok |-> TRUE,
              bytes |-> BitsToBytes(int2ba(2, 2) \o int2ba(twohours, 6))]
    ELSE IF LessThanMinutes(offset, 64 * 24 * 60)
    THEN LET days == offset.days
         IN  [ok |-> TRUE,
              bytes |-> BitsToBytes(int2ba(2, 3) \o int2ba(6, days))]
    ELSE [ok |-> FALSE, error |-> "ValueError"]

\* The timepoint None, a record so that it compares with a datetime.
NoTimepoint == [none |-> TRUE]

\* A datetime in UTC: the date as its Modified Julian Day, which is what
\* int(julian.to_jd(timepoint, fmt='mjd')) gives, and the time of day.
datetime(mjd, hour, minute, second, microsecond) ==
    [mjd |-> mjd, hour |-> hour, minute |-> minute, second |-> second,
     microsecond |-> microsecond]

\* A form of the test that would also write the long form for a timepoint
\* with microseconds and no seconds.
LongFormForSubsecond(timepoint) == timepoint.second > 0 \/ timepoint.microsecond > 0
\* "if timepoint.second > 0": the long form is written.
LongForm(timepoint) == timepoint.second > 0

\* encode_absolute_time(timepoint): the bytes; timepoint is None or a
\* datetime in UTC.
encode_absolute_time(timepoint) ==
    IF timepoint = NoTimepoint THEN BitsToBytes([i \in 1..32 |-> 0])
    ELSE LET front == <<1>> \o int2ba(timepoint.mjd, 17) \o int2ba(0, 2)
         IN  IF LongForm(timepoint)
             THEN BitsToBytes(front \o <<1>> \o int2ba(timepoint.hour, 5)
                              \o int2ba(timepoint.minute, 6)
                              \o int2ba(timepoint.second, 6)
                              \o int2ba(timepoint.microsecond \div 1000, 10))
             ELSE BitsToBytes(front \o <<0>> \o int2ba(timepoint.hour, 5)
                              \o int2ba(timepoint.minute, 6))

-----------------------------------------------------------------------------
(* Header parameters: the variants, their payloads and the PLI preamble *)

ContentName(name, charset) ==
    [kind |-> "ContentName", id |-> 12, name |-> name, charset |-> charset]
MimeType(mimetype) == [kind |-> "MimeType", id |-> 16, mimetype |-> mimetype]
AbsoluteExpiration(timepoint) ==
    [kind |-> "AbsoluteExpiration", id |-> 4, timepoint |-> timepoint]
Compression(type) == [kind |-> "Compression", id |-> 17, type |-> type]
Priority(priority) == [kind |-> "Priority", id |-> 10, priority |-> priority]

\* The range the message of the ValueError names: 0 to 255, inclusive.
PriorityOutOfMessageRange(priority) == priority < 0 \/ priority > 255
\* "if priority < 1 or priority > 255: raise ValueError"
PriorityOutOfRange(priority) == priority < 1 \/ priority > 255

\* Priority.__init__: the parameter, or the ValueError it raises.
NewPriority(priority) ==
    IF PriorityOutOfRange(priority) THEN [ok |-> FALSE, error |-> "ValueError"]
    ELSE [ok |-> TRUE, param |-> Priority(priority)]

\* CharacterSet: the values of the enum.
CharacterSet == {0, 1, 2, 3, 4, 15}
ISO_LATIN1 == 4
\* CompressionType: the values of the enum.
CompressionType == {0, 1}

\* encode_data of the variants the inbound headers of this model carry.
encode_data(p) ==
    CASE p.kind = "ContentName" -> BitsToBytes(int2ba(p.charset, 4) \o int2ba(0, 4)) \o p.name
      [] p.kind = "MimeType" -> p.mimetype
      [] p.kind = "Compression" -> <<p.type>>
      [] p.kind = "Priority" -> <<p.priority>>

\* HeaderParameter.tobytes: the preamble chosen by the payload length, then
\* the payload.  A length of 2 or 3 takes the PLI=3 branch.
tobytes(p) ==
    LET data == encode_data(p)
        data_length == Len(data)
        bits == IF data_length = 0 THEN int2ba(0, 2) \o int2ba(p.id, 6)
                ELSE IF data_length = 1 THEN int2ba(1, 2) \o int2ba(p.id, 6)
                ELSE IF data_length = 4 THEN int2ba(2, 2) \o int2ba(p.id, 6)
                ELSE IF data_length <= 127
                     THEN int2ba(3, 2) \o int2ba(p.id, 6) \o <<0>> \o int2ba(data_length, 7)
                ELSE IF data_length <= 32770
                     THEN int2ba(3, 2) \o int2ba(p.id, 6) \o <<1>> \o int2ba(data_length, 15)
                ELSE <<>>
    IN  BitsToBytes(bits) \o data

\* The ids register_header_parameter_decoder is called with at import.
decoders == {12, 16, 4, 17, 10}

RECURSIVE int_from_bytes(_)
\* int.from_bytes(data), big endian.
int_from_bytes(data) ==
    IF data = <<>> THEN 0
    ELSE Bind(SubSeq(data, 1, Len(data) - 1),
              LAMBDA front : 256 * int_from_bytes(front) + data[Len(data)])

\* decode_absolute_time: None for all-zero bits; otherwise the date of the
\* MJD at midnight (datetime.replace returns a new value, which is dropped).
decode_absolute_time(data) ==
    IF \A i \in 1..Len(data) : data[i] = 0 THEN NoTimepoint
    ELSE datetime(SliceInt(data, 1, 18), 0, 0, 0, 0)

\* The decode_data of the variant registered for param_id, applied to the
\* payload: [ok |-> TRUE, param |-> p], or ok = FALSE when it raises.
decode_data(param_id, data) ==
    LET Raise == [ok |-> FALSE]
    IN CASE param_id = 12 ->
              IF data = <<>> \/ (data[1] \div 16) \notin CharacterSet THEN Raise
              ELSE [ok |-> TRUE, param |-> ContentName(BytesFrom(data, 1), data[1] \div 16)]
         [] param_id = 16 -> [ok |-> TRUE, param |-> MimeType(data)]
         [] param_id = 4 ->
              IF Len(data) \in {4, 6}
              THEN [ok |-> TRUE, param |-> AbsoluteExpiration(decode_absolute_time(data))]
              ELSE Raise
         [] param_id = 17 ->
              Bind(int_from_bytes(data),
                   LAMBDA type : IF type \in CompressionType
                                 THEN [ok |-> TRUE, param |-> Compression(type)]
                                 ELSE Raise)
         [] param_id = 10 ->
              Bind(int_from_bytes(data),
                   LAMBDA priority : IF PriorityOutOfRange(priority) THEN Raise
                                     ELSE [ok |-> TRUE, param |-> Priority(priority)])

\* len(data - data_start) at line 150: the operands are a byte string and
\* an int, and bytes has no subtraction, so the expression raises TypeError
\* whatever the operands are.
BytesMinusInt(data, data_start) == "TypeError"

\* HeaderParameter.frombytes(data): [ok |-> TRUE, param, size], or ok = FALSE
\* with the exception that leaves the call.  The preamble is read as the
\* code reads it; the length test at line 150 is evaluated before the
\* decoder is looked up.
frombytes(data) ==
    LET Raise(error) == [ok |-> FALSE, error |-> error]
        PLI == SliceInt(data, 0, 2)
        param_id == SliceInt(data, 2, 8)
        Ext == Bit(data, 8)
        data_start == IF PLI = 3 THEN (IF Ext = 1 THEN 3 ELSE 2) ELSE 1
        data_length == CASE PLI = 0 -> 0
                         [] PLI = 1 -> 1
                         [] PLI = 2 -> 4
                         [] PLI = 3 -> IF Ext = 1 THEN SliceInt(data, 9, 24)
                                       ELSE SliceInt(data, 9, 16)
    IN  IF data = <<>> THEN Raise("ValueError")
        ELSE IF PLI = 3 /\ Len(data) < 2 THEN Raise("IndexError")
        ELSE IF data_length = NoBits THEN Raise("ValueError")
        ELSE Bind(BytesMinusInt(data, data_start), LAMBDA rest :
               IF rest = "TypeError" THEN Raise("TypeError")
               ELSE IF data_length # Len(rest) THEN Raise("ValueError")
               ELSE IF param_id \notin decoders THEN Raise("UnknownHeaderParameter")
               ELSE Bind(decode_data(param_id, BytesFrom(data, data_start)), LAMBDA r :
                      IF r.ok THEN [ok |-> TRUE, param |-> r.param,
                                    size |-> data_start + data_length]
                      ELSE Raise("HeaderParameterError")))

\* HeaderParameter.from_bits(bits, i): the parameter that starts at bit i of
\* the bitarray of data.  [ok |-> TRUE, param, size] with size the bytes
\* consumed; [ok |-> FALSE, unknown |-> TRUE, size] for an id with no
\* decoder; [ok |-> FALSE, unknown |-> FALSE] for a preamble or payload that
\* runs past the buffer or a decoder that raises.
from_bits(data, i) ==
    LET n == NBits(data)
        Fail == [ok |-> FALSE, unknown |-> FALSE, size |-> 0]
        Read(PLI, param_id, Ext) ==
            LET data_start == IF PLI = 3 THEN (IF Ext = 1 THEN 3 ELSE 2) ELSE 1
                data_length == CASE PLI = 0 -> 0
                                 [] PLI = 1 -> 1
                                 [] PLI = 2 -> 4
                                 [] PLI = 3 -> IF Ext = 1 THEN SliceInt(data, i + 9, i + 24)
                                               ELSE SliceInt(data, i + 9, i + 16)
            IN  IF i + 8 * data_start > n THEN Fail
                ELSE Bind(<<(i \div 8) + data_start, data_length>>, LAMBDA at :
                       IF at[1] + at[2] > Len(data) THEN Fail
                       ELSE IF param_id \notin decoders
                            THEN [ok |-> FALSE, unknown |-> TRUE, size |-> data_start + at[2]]
                       ELSE Bind(decode_data(param_id, SubSeq(data, at[1] + 1, at[1] + at[2])),
                              LAMBDA r : IF r.ok
                                         THEN [ok |-> TRUE, param |-> r.param,
                                               size |-> data_start + at[2]]
                                         ELSE Fail))
    IN  IF i + 8 > n THEN Fail
        ELSE Bind(<<SliceInt(data, i, i + 2), SliceInt(data, i + 2, i + 8),
                    IF i + 8 < n THEN Bit(data, i + 8) ELSE 0>>,
                  LAMBDA lead : Read(lead[1], lead[2], lead[3]))

-----------------------------------------------------------------------------
(* Datagroups and the cache *)

\* msc.Datagroup as decode_objects reads it: get_type(), get_transport_id(),
\* segment_index, last, get_data().
Datagroup(type, transport_id, segment_index, last, data) ==
    [type |-> type, transport_id |-> transport_id,
     segment_index |-> segment_index, last |-> last, data |-> data]

HEADER == 3
BODY == 4
DIRECTORY == 6

\* transport_id=None, the default of check_type_complete.
NoneId == -1

\* dict: keys(), in, [], get(k, default), [k] = v, pop(k).
Keys(c) == [i \in 1..Len(c) |-> c[i].k]
KeySet(c) == {c[i].k : i \in 1..Len(c)}
Get(c, k, default) ==
    IF k \in KeySet(c) THEN c[CHOOSE i \in 1..Len(c) : c[i].k = k].v ELSE default
Put(c, k, v) ==
    IF k \in KeySet(c) THEN [i \in 1..Len(c) |-> IF c[i].k = k THEN [k |-> k, v |-> v] ELSE c[i]]
    ELSE Append(c, [k |-> k, v |-> v])
\* What a pop that leaves the entry in place would return.
PopKeepsEntry(c, k) == c
Pop(c, k) == SelectSeq(c, LAMBDA e : e.k # k)

\* [x for x in datagroups if x.get_type() == type]
OfType(datagroups, type) == SelectSeq(datagroups, LAMBDA x : x.type = type)

\* The sort key of decode_objects: (x.get_type(), x.segment_index).
KeyLeq(x, y) ==
    x.type < y.type \/ (x.type = y.type /\ x.segment_index <= y.segment_index)

RECURSIVE InsertStable(_, _)
\* x placed behind every element whose key is not greater than its own.
InsertStable(sortedItems, x) ==
    IF sortedItems = <<>> THEN <<x>>
    ELSE LET n == Len(sortedItems)
         IN  IF KeyLeq(sortedItems[n], x) THEN Append(sortedItems, x)
             ELSE Bind(SubSeq(sortedItems, 1, n - 1),
                       LAMBDA front : Append(InsertStable(front, x), sortedItems[n]))

RECURSIVE sorted(_)
\* sorted(items, key=...): a stable sort.
sorted(items) ==
    IF items = <<>> THEN <<>>
    ELSE Bind(SubSeq(items, 1, Len(items) - 1),
              LAMBDA front : Bind(sorted(front),
                                  LAMBDA done : InsertStable(done, items[Len(items)])))

\* "d not in items": Datagroups compared by value.
Contains(items, d) == \E i \in 1..Len(items) : items[i] = d

\* An ingest without the "d not in items" test: d is appended always.
ingestAppendsAlways(cache, d) ==
    Bind(Get(cache, d.transport_id, <<>>), LAMBDA items :
      Bind(sorted(Append(items, d)), LAMBDA sortedItems :
        Put(cache, d.transport_id, sortedItems)))

\* The first four lines of the loop body of decode_objects.
ingest(cache, d) ==
    Bind(Get(cache, d.transport_id, <<>>), LAMBDA items :
      Bind(IF ~Contains(items, d) THEN Append(items, d) ELSE items, LAMBDA appended :
        Bind(sorted(appended), LAMBDA sortedItems :
          Put(cache, d.transport_id, sortedItems))))

-----------------------------------------------------------------------------
(* is_complete *)

\* The datagroups check_type_complete looks at: those of cache[t] of the
\* type when transport_id is truthy, otherwise the whole entry of the first
\* key whose first datagroup has the type.
TypeDatagroups(type, transport_id, t, cache) ==
    IF transport_id # NoneId /\ transport_id # 0
    THEN OfType(Get(cache, t, <<>>), type)
    ELSE LET hits == {i \in 1..Len(cache) : cache[i].v[1].type = type}
         IN  IF hits = {} THEN <<>>
             ELSE cache[CHOOSE i \in hits : \A j \in hits : i <= j].v

check_type_complete(type, transport_id, t, cache) ==
    \E datagroups \in {TypeDatagroups(type, transport_id, t, cache)} :
        LET n == Len(datagroups)
        IN  /\ n # 0
            /\ datagroups[1].segment_index = 0
            /\ datagroups[n].last
            /\ \A i \in 2..n :
                  datagroups[i].segment_index = datagroups[i - 1].segment_index + 1

is_complete(t, cache) ==
    /\ check_type_complete(BODY, t, t, cache)
    /\ \/ check_type_complete(HEADER, t, t, cache)
       \/ check_type_complete(DIRECTORY, NoneId, t, cache)

-----------------------------------------------------------------------------
(* decode_directory_object *)

ContentType(type, subtype) == [type |-> type, subtype |-> subtype]

\* A handler that leaves the read position where the parameter failed.
StayAtFailure(i, end) == i
\* "i = end" of the except branch: the position after a failed parameter.
SkipToEnd(i, end) == end

RECURSIVE DirectoryParameters(_, _, _, _)
\* The inner loop over one entry's parameters: [parameters, i] when it is
\* left.  Any exception of from_bits abandons the entry at its boundary.
DirectoryParameters(data, i, end, parameters) ==
    IF i >= end THEN [parameters |-> parameters, i |-> i]
    ELSE Bind(from_bits(data, i), LAMBDA r :
           IF r.ok
           THEN Bind(<<i + r.size * 8, Append(parameters, r.param)>>,
                     LAMBDA nx : DirectoryParameters(data, nx[1], end, nx[2]))
           ELSE [parameters |-> parameters, i |-> SkipToEnd(i, end)])

RECURSIVE DirectoryEntries(_, _, _)
\* The loop "while i < bits.length()" over the header entries; headers maps
\* transport id to (content_type, parameters).
DirectoryEntries(data, i, headers) ==
    IF i >= NBits(data) THEN [ok |-> TRUE, headers |-> headers]
    ELSE LET j == i + 16
         IN  Bind([transport_id |-> SliceInt(data, i, i + 16),
                   body_size |-> SliceInt(data, j, j + 28),
                   header_size |-> SliceInt(data, j + 28, j + 41),
                   type |-> SliceInt(data, j + 41, j + 47),
                   subtype |-> SliceInt(data, j + 47, j + 56)],
               LAMBDA core :
                 IF NoBits \in {core.body_size, core.header_size, core.type, core.subtype}
                 THEN [ok |-> FALSE, headers |-> headers]
                 ELSE Bind(DirectoryParameters(data, j + 56, j + core.header_size * 8, <<>>),
                        LAMBDA ps :
                          Bind([k \in DOMAIN headers \cup {core.transport_id} |->
                                  IF k = core.transport_id
                                  THEN [content_type |-> ContentType(core.type, core.subtype),
                                        parameters |-> ps.parameters]
                                  ELSE headers[k]],
                               LAMBDA headers1 : DirectoryEntries(data, ps.i, headers1))))

\* [ok |-> TRUE, headers] or, for a ValueError of int('', 2), ok = FALSE.
decode_directory_object(data) ==
    LET total_size == SliceInt(data, 2, 32)
        number_of_objects == SliceInt(data, 32, 48)
        carousel_period == SliceInt(data, 48, 72)
        segment_size == SliceInt(data, 75, 88)
        directory_extension_length == SliceInt(data, 88, 104)
    IN  IF NoBits \in {total_size, number_of_objects, carousel_period,
                       segment_size, directory_extension_length}
        THEN [ok |-> FALSE, headers |-> <<>>]
        ELSE DirectoryEntries(data, 104 + directory_extension_length * 8, <<>>)

-----------------------------------------------------------------------------
(* compile_object *)

\* Cache.directory: None, or the mapping decode_directory_object returned.
NoDirectory == [set |-> FALSE, headers |-> <<>>]

MotObject(name, body, contenttype, transport_id) ==
    [transport_id |-> transport_id, contenttype |-> contenttype, body |-> body,
     parameters |-> [c \in {name.kind} |-> name]]

\* An add_parameter that keeps the parameter the object already has of the
\* class.
add_parameter_if_absent(object, param) ==
    [object EXCEPT !.parameters =
        [c \in DOMAIN object.parameters \cup {param.kind} |->
            IF c \in DOMAIN object.parameters THEN object.parameters[c] ELSE param]]

\* MotObject.add_parameter: the parameters are keyed by the class name.
add_parameter(object, param) ==
    [object EXCEPT !.parameters =
        [c \in DOMAIN object.parameters \cup {param.kind} |->
            IF c = param.kind THEN param ELSE object.parameters[c]]]

\* MotObject.remove_parameter(clazz): dict.pop without a default raises
\* KeyError for a class the object has no parameter of.
remove_parameter(object, clazz) ==
    IF clazz \notin DOMAIN object.parameters
    THEN [ok |-> FALSE, error |-> "KeyError", object |-> object]
    ELSE [ok |-> TRUE, error |-> None,
          object |-> [object EXCEPT !.parameters =
                         [c \in DOMAIN object.parameters \ {clazz} |-> object.parameters[c]]]]

RECURSIVE add_parameters(_, _)
\* for param in params: object.add_parameter(param)
add_parameters(object, params) ==
    IF params = <<>> THEN object
    ELSE Bind(add_parameter(object, Head(params)),
              LAMBDA added : add_parameters(added, Tail(params)))

RECURSIVE HeaderParameters(_, _, _)
\* The loop "while i < len(bits)" of compile_object: params is appended to;
\* an unknown parameter is stepped over, any other exception is raised.
HeaderParameters(header, i, params) ==
    IF i >= NBits(header) THEN [ok |-> TRUE, params |-> params]
    ELSE Bind(from_bits(header, i), LAMBDA r :
           IF r.ok
           THEN Bind(<<i + r.size * 8, Append(params, r.param)>>,
                     LAMBDA nx : HeaderParameters(header, nx[1], nx[2]))
           ELSE IF r.unknown /\ r.size # 0
                THEN Bind(i + r.size * 8, LAMBDA nx : HeaderParameters(header, nx, params))
           ELSE [ok |-> FALSE, params |-> params])

RECURSIVE CompileHeader(_, _, _, _)
\* The loop over the type 3 datagroups: each one is added to header and the
\* header read so far is parsed, its parameters appended to params.
CompileHeader(headerDatagroups, header, params, content_type) ==
    IF headerDatagroups = <<>>
    THEN [ok |-> TRUE, header |-> header, params |-> params, content_type |-> content_type]
    ELSE Bind(header \o Head(headerDatagroups).data, LAMBDA h :
           Bind([type |-> SliceInt(h, 41, 47), subtype |-> SliceInt(h, 47, 56),
                 ps |-> HeaderParameters(h, 56, params)],
             LAMBDA read :
               IF read.type = NoBits \/ read.subtype = NoBits \/ ~read.ps.ok
               THEN [ok |-> FALSE, header |-> h, params |-> read.ps.params,
                     content_type |-> content_type]
               ELSE Bind(<<Tail(headerDatagroups), ContentType(read.type, read.subtype)>>,
                      LAMBDA nx : CompileHeader(nx[1], h, read.ps.params, nx[2]))))

\* The bytes compile_object hands to decode_directory_object: the data of
\* every datagroup of every entry whose first datagroup has type 6.
DirectoryData(cache) ==
    Concat([i \in 1..Len(cache) |->
              IF cache[i].v[1].type = DIRECTORY
              THEN Concat([n \in 1..Len(cache[i].v) |-> cache[i].v[n].data])
              ELSE <<>>])

NoContentType == ContentType(-1, -1)
NoObject == [transport_id |-> NoneId]

\* "if not len(header)": no header datagroup gave a byte.
HeaderNeverRead(header) == TRUE
HeaderIsEmpty(header) == Len(header) = 0

\* "if not cache.directory": None and the empty dict are both false.
DirectoryNeverKept(directory) == TRUE
DirectoryIsFalse(directory) == ~directory.set \/ DOMAIN directory.headers = {}

\* The part of compile_object behind the header loop.  hd is what the loop
\* left, dir_object what decode_directory_object returned (read only when
\* the call is made).
CompileBody(transport_id, cache, directory, datagroups, hd, decoding, dir_object) ==
    LET fromDirectory == HeaderIsEmpty(hd.header)
        directory1 == IF decoding /\ dir_object.ok
                      THEN [set |-> TRUE, headers |-> dir_object.headers]
                      ELSE directory
        found == transport_id \in DOMAIN directory1.headers
        content_type == IF fromDirectory THEN directory1.headers[transport_id].content_type
                        ELSE hd.content_type
        params == IF fromDirectory THEN directory1.headers[transport_id].parameters
                  ELSE hd.params
        bodies == OfType(datagroups, BODY)
        body == Concat([n \in 1..Len(bodies) |-> bodies[n].data])
        names == SelectSeq(params, LAMBDA param : param.kind = "ContentName")
        Raise(error) == [ok |-> FALSE, error |-> error, object |-> NoObject,
                         cache |-> cache, directory |-> directory1,
                         decoded |-> decoding]
    IN  IF decoding /\ ~dir_object.ok THEN Raise("directory")
        ELSE IF fromDirectory /\ ~found THEN Raise("KeyError")
        ELSE IF names = <<>> THEN Raise("no name parameter found")
        ELSE [ok |-> TRUE, error |-> None,
              object |-> add_parameters(
                  MotObject(names[Len(names)], body, content_type, transport_id), params),
              cache |-> Pop(cache, transport_id), directory |-> directory1,
              decoded |-> decoding]

\* compile_object(transport_id, cache): ok with the object and the cache it
\* leaves, or ok = FALSE for an exception.  directory is Cache.directory as
\* the call leaves it; decoded tells whether decode_directory_object ran.
compile_object(transport_id, cache, directory) ==
    Bind(Get(cache, transport_id, <<>>), LAMBDA datagroups :
      Bind(CompileHeader(OfType(datagroups, HEADER), <<>>, <<>>, NoContentType), LAMBDA hd :
        IF ~hd.ok
        THEN [ok |-> FALSE, error |-> "header", object |-> NoObject, cache |-> cache,
              directory |-> directory, decoded |-> FALSE]
        ELSE IF HeaderIsEmpty(hd.header) /\ DirectoryIsFalse(directory)
        THEN Bind(decode_directory_object(DirectoryData(cache)), LAMBDA dir_object :
               CompileBody(transport_id, cache, directory, datagroups, hd, TRUE, dir_object))
        ELSE CompileBody(transport_id, cache, directory, datagroups, hd, FALSE,
                         [ok |-> FALSE, headers |-> <<>>])))

-----------------------------------------------------------------------------
(* decode_objects *)

RECURSIVE Scan(_, _)
\* "for t in list(cache.keys())": ts is what is left of the key list taken
\* before the loop.  out are the objects yielded; an exception of
\* compile_object leaves the loop and the generator (raised).
Scan(ts, st) ==
    IF ts = <<>> THEN st
    ELSE Bind(<<Head(ts), Tail(ts)>>, LAMBDA tt :
           IF ~is_complete(tt[1], st.cache) THEN Scan(tt[2], st)
           ELSE Bind(compile_object(tt[1], st.cache, st.directory), LAMBDA r :
                  Bind([cache |-> r.cache, directory |-> r.directory,
                        out |-> IF r.ok THEN Append(st.out, r.object) ELSE st.out,
                        decodes |-> st.decodes + (IF r.decoded THEN 1 ELSE 0),
                        raised |-> ~r.ok,
                        failed |-> IF r.ok THEN st.failed ELSE tt[1]],
                       LAMBDA st1 : IF r.ok THEN Scan(tt[2], st1) ELSE st1)))

\* One pass of "for d in data": ingest d, then examine the cache.
Process(cache, directory, d) ==
    Bind(ingest(cache, d), LAMBDA ingested :
      Bind([cache |-> ingested, directory |-> directory, out |-> <<>>,
            decodes |-> 0, raised |-> FALSE, failed |-> NoneId],
           LAMBDA st : Scan(Keys(ingested), st)))

-----
(* The inbound datagroups: what the transport layer may hand over *)

\* The 56-bit core header: body size, header size, content type, subtype.
CoreHeader(body_size, header_size, content_type) ==
    BitsToBytes(int2ba(body_size, 28) \o int2ba(header_size, 13)
                \o int2ba(content_type.type, 6) \o int2ba(content_type.subtype, 9))

\* A header: the core header, then the parameters as tobytes renders them.
HeaderData(body_size, content_type, params) ==
    LET encoded == Concat([n \in 1..Len(params) |-> tobytes(params[n])])
    IN  CoreHeader(body_size, 7 + Len(encoded), content_type) \o encoded

\* The 13 bytes in front of a directory's entries, no directory extension.
DirectoryHeader(total_size, number_of_objects) ==
    BitsToBytes(int2ba(0, 2) \o int2ba(total_size, 30) \o int2ba(number_of_objects, 16)
                \o int2ba(0, 24) \o int2ba(0, 3) \o int2ba(0, 13) \o int2ba(0, 16))

\* One directory entry: the transport id, then the object's header.
DirectoryEntry(transport_id, header) ==
    BitsToBytes(int2ba(transport_id, 16)) \o header

DirectoryOf(entries) ==
    LET body == Concat(entries)
    IN  DirectoryHeader(13 + Len(body), Len(entries)) \o body

NameZ == ContentName(<<90>>, ISO_LATIN1)
NameA == ContentName(<<65>>, ISO_LATIN1)
NameB == ContentName(<<66>>, ISO_LATIN1)
NameD == ContentName(<<68>>, ISO_LATIN1)

Type0 == ContentType(1, 0)
Type1 == ContentType(2, 3)
Type1Dir == ContentType(2, 1)
Type2 == ContentType(2, 0)

Header0 == HeaderData(1, Type0, <<NameZ>>)
Header1 == HeaderData(2, Type1, <<NameA, Priority(4)>>)
Header2 == HeaderData(2, Type2, <<NameB, Priority(5)>>)
Header3 == HeaderData(1, Type2, <<Priority(6)>>)

\* Object 0: header and body in one segment each.
H0 == Datagroup(HEADER, 0, 0, TRUE, Header0)
B0 == Datagroup(BODY, 0, 0, TRUE, <<7>>)
\* Object 1: one header segment, one body segment, and a second body
\* segment 0 with other bytes.
H1 == Datagroup(HEADER, 1, 0, TRUE, Header1)
B1 == Datagroup(BODY, 1, 0, TRUE, <<1, 2>>)
B1x == Datagroup(BODY, 1, 0, TRUE, <<9>>)
\* Object 2: the header cut behind its ContentName, the body in segments
\* 0 and 1, and a segment 2.
H2a == Datagroup(HEADER, 2, 0, FALSE, SubSeq(Header2, 1, 11))
H2b == Datagroup(HEADER, 2, 1, TRUE, SubSeq(Header2, 12, Len(Header2)))
B2a == Datagroup(BODY, 2, 0, FALSE, <<3>>)
B2b == Datagroup(BODY, 2, 1, TRUE, <<4>>)
B2c == Datagroup(BODY, 2, 2, TRUE, <<5>>)
\* Object 3: a header without ContentName, and not in any directory.
H3 == Datagroup(HEADER, 3, 0, TRUE, Header3)
B3 == Datagroup(BODY, 3, 0, TRUE, <<6>>)
\* Directory A describes objects 0, 1 and 2; its entry for object 1 differs
\* from Header1.  Directory B has no entries.
DA == Datagroup(DIRECTORY, 9, 0, TRUE,
        DirectoryOf(<<DirectoryEntry(0, Header0),
                      DirectoryEntry(1, HeaderData(2, Type1Dir, <<NameD>>)),
                      DirectoryEntry(2, Header2)>>))
DB == Datagroup(DIRECTORY, 8, 0, TRUE, DirectoryOf(<<>>))

\* No datagroup read yet.
NoDatagroup == Datagroup(0, NoneId, 0, FALSE, <<>>)

Datagroups == {H0, B0, H1, B1, B1x, H2a, H2b, B2a, B2b, B2c, H3, B3, DA, DB}

\* The body of object 0, object 2 in four segments and the header of
\* object 3: runs that interleave these alone are followed further.
Interleaved == {B0, H2a, H2b, B2a, B2b, H3}

-----------------------------------------------------------------------------
(* The state machine: one decode_objects run *)

VARIABLES
    cache,      \* the Cache dict: items [k, v] in insertion order
    directory,  \* Cache.directory
    status,     \* "running", or "raised" once an exception left the generator
    emitted,    \* the objects yielded so far, in order
    steps,      \* inbound datagroups read
    inbound,    \* the datagroup read last
    seen,       \* the set of datagroups read
    pre,        \* the cache as the last ingest left it, before the scan
    burst,      \* how many objects the last datagroup made the generator yield
    decodes,    \* calls of decode_directory_object so far
    failed,     \* the transport id whose compile_object raised
    call        \* the last call of an encoder, decoder or constructor

\* The variables of a decode_objects run.
run == <<cache, directory, status, emitted, steps, inbound, seen, pre, burst,
         decodes, failed>>

vars == <<cache, directory, status, emitted, steps, inbound, seen, pre, burst,
          decodes, failed, call>>

\* No call made.
NoCall == [op |-> "none"]

\* cache = Cache(), before the first datagroup.
Init ==
    /\ cache = <<>>
    /\ directory = NoDirectory
    /\ status = "running"
    /\ emitted = <<>>
    /\ steps = 0
    /\ inbound = NoDatagroup
    /\ seen = {}
    /\ pre = <<>>
    /\ burst = 0
    /\ decodes = 0
    /\ failed = NoneId
    /\ call = NoCall

\* How far a run that has read the datagroups ds is followed.
Budget(ds) == IF ds \subseteq Interleaved THEN MaxInterleaved ELSE MaxSteps

\* The generator reads d and runs until it asks for the next datagroup.
Receive(d) ==
    /\ status = "running"
    /\ steps < Budget(seen \cup {d})
    /\ \E r \in {Process(cache, directory, d)} :
           /\ cache' = r.cache
           /\ directory' = r.directory
           /\ status' = IF r.raised THEN "raised" ELSE "running"
           /\ emitted' = emitted \o r.out
           /\ burst' = Len(r.out)
           /\ decodes' = decodes + r.decodes
           /\ failed' = r.failed
    /\ pre' = ingest(cache, d)
    /\ steps' = steps + 1
    /\ inbound' = d
    /\ seen' = seen \cup {d}
    /\ UNCHANGED call

Next == \E d \in Datagroups : Receive(d)

Spec == Init /\ [][Next]_vars

-----------------------------------------------------------------------------
(* What the claims speak of *)

\* The objects the last inbound datagroup made the generator yield.
Yielded == SubSeq(emitted, Len(emitted) - burst + 1, Len(emitted))
YieldedIds == {Yielded[i].transport_id : i \in 1..Len(Yielded)}

\* The datagroups of one type stored under transport id t.
Stored(c, t, type) == OfType(Get(c, t, <<>>), type)

\* The rule of the specification for one group of datagroups: not empty,
\* from segment 0, each index one above the one before, the final one last.
ContiguousRun(datagroups) ==
    /\ datagroups # <<>>
    /\ \A i \in 1..Len(datagroups) : datagroups[i].segment_index = i - 1
    /\ datagroups[Len(datagroups)].last

\* is_complete as the specification words it.
CompleteAsSpecified(t, c) ==
    /\ ContiguousRun(Stored(c, t, BODY))
    /\ \/ ContiguousRun(Stored(c, t, HEADER))
       \/ \E k \in KeySet(c) : ContiguousRun(Stored(c, k, DIRECTORY))

\* The objects the headers and bodies of the inbound datagroups describe.
Object0 == [transport_id |-> 0, contenttype |-> Type0, body |-> <<7>>,
            parameters |-> [ContentName |-> NameZ]]
Object1 == [transport_id |-> 1, contenttype |-> Type1, body |-> <<1, 2>>,
            parameters |-> [ContentName |-> NameA, Priority |-> Priority(4)]]
Object2 == [transport_id |-> 2, contenttype |-> Type2, body |-> <<3, 4>>,
            parameters |-> [ContentName |-> NameB, Priority |-> Priority(5)]]

-----------------------------------------------------------------------------
(* C1 *)

\* C1: for every cache content decode_objects scans and every transport id
\* t in it, is_complete(t, cache) is true exactly when t's body datagroups
\* are a contiguous run from 0 ending in last, and either t's header
\* datagroups are such a run or the directory datagroups of some entry are.
C1_CompleteIffSpecified ==
    \A t \in KeySet(pre) : is_complete(t, pre) <=> CompleteAsSpecified(t, pre)

-----------------------------------------------------------------------------
(* C2 *)

-----------------------------------------------------------------------------
(* C3 *)

\* C3: when decode_objects has processed an inbound datagroup to the end
\* of its scan, no transport id left in the cache satisfies is_complete:
\* every complete id was compiled and yielded in that step, a directory
\* that completes several buffered bodies yields them all at once.
C3_NothingCompleteLeft ==
    status = "running" => \A t \in KeySet(cache) : ~is_complete(t, cache)

-----------------------------------------------------------------------------
(* C4 *)

\* C4: a compile_object that fails for one transport id does not end the
\* stream: decode_objects goes on with the other ids and the datagroups
\* that follow.
C4_CompileErrorKeepsStream == failed # NoneId => status = "running"

-----------------------------------------------------------------------------
(* C5 *)

\* What the header datagroups of the inbound objects say.
ByHeader == [t \in {0, 1, 2} |-> CASE t = 0 -> Object0 [] t = 1 -> Object1 [] t = 2 -> Object2]

\* C5: an object compiled for a transport id whose header datagroups are
\* complete carries the content type and the parameters of that header,
\* also when a complete directory is stored that describes the id
\* otherwise, and a step that compiles only objects that have header
\* datagroups neither decodes the directory nor changes Cache.directory.
C5_HeaderPrecedence ==
    [][status' = "running" =>
         LET new == {emitted'[i] : i \in (Len(emitted) + 1)..Len(emitted')}
             withHeader == {o \in new : Stored(pre', o.transport_id, HEADER) # <<>>}
             complete == {o \in new : ContiguousRun(Stored(pre', o.transport_id, HEADER))}
         IN  /\ \A o \in complete :
                   /\ o.transport_id \in DOMAIN ByHeader
                   /\ o.contenttype = ByHeader[o.transport_id].contenttype
                   /\ o.parameters = ByHeader[o.transport_id].parameters
             /\ new = withHeader => decodes' = decodes /\ directory' = directory]_vars

\* Object 1 is compiled from Header1 while directory A, complete and with
\* another entry for object 1, is stored and has not been decoded.
C5_HeaderUsedBesideDirectory ==
    /\ Yielded = <<Object1>>
    /\ ContiguousRun(Stored(pre, 9, DIRECTORY))
    /\ ~directory.set
    /\ decodes = 0

-----------------------------------------------------------------------------
(* C6 *)

-----------------------------------------------------------------------------
(* C7 *)

\* C7: ingest is idempotent: ingesting a datagroup equal to one stored
\* leaves the cache as it is, and no entry ever holds two equal datagroups.
C7_IngestIdempotent ==
    /\ \A d \in Datagroups :
          Contains(Get(pre, d.transport_id, <<>>), d) => ingest(pre, d) = pre
    /\ \A i \in 1..Len(pre) : \A a, b \in 1..Len(pre[i].v) :
          a # b => pre[i].v[a] # pre[i].v[b]

\* A datagroup was read twice in a row and is stored once.
C7_SecondCopyDropped ==
    /\ steps = 2
    /\ Cardinality(seen) = 1
    /\ Len(pre) = 1
    /\ pre[1].v = <<inbound>>

-----------------------------------------------------------------------------
(* C8 *)

\* C8: no partial object is emitted: the body datagroups stored for a
\* yielded transport id are segments 0..n with last on n.
C8_NoPartialObject ==
    \A t \in YieldedIds : ContiguousRun(Stored(pre, t, BODY))

-----------------------------------------------------------------------------
(* C9 *)

\* C9: a run that read exactly one complete header and one complete body
\* of a transport id has yielded exactly one object, with that id and the
\* body segments concatenated in order, and the id is no key of the cache.
C9_EndToEnd ==
    /\ seen = {H0, B0} /\ steps = 2 =>
          emitted = <<Object0>> /\ 0 \notin KeySet(cache)
    /\ seen = {H1, B1} /\ steps = 2 =>
          emitted = <<Object1>> /\ 1 \notin KeySet(cache)
    /\ seen = {H2a, H2b, B2a, B2b} /\ steps = 4 =>
          emitted = <<Object2>> /\ 2 \notin KeySet(cache)

-----------------------------------------------------------------------------
(* C10 *)

\* C10: within one run decode_directory_object is called at most once,
\* however many objects are compiled from the directory and however many
\* directory datagroups arrive, and Cache.directory, once set, stays.
C10_DirectoryDecodedOnce ==
    /\ [](decodes <= 1)
    /\ [][directory.set => directory' = directory]_vars

\* Several objects were compiled from the directory, which was decoded
\* once, and a directory datagroup arrived after that.
C10_DecodedOnceForMany ==
    /\ decodes = 1
    /\ directory.set
    /\ Len(emitted) >= 2
    /\ \A i \in 1..Len(emitted) : emitted[i].parameters["ContentName"] \in {NameZ, NameD, NameB}
    /\ inbound.type = DIRECTORY
    /\ burst = 0

-----------------------------------------------------------------------------
(* C11 *)

\* The datagroups that make up the complete header and the complete body
\* of one object, and the object they describe.
Complete == <<[datagroups |-> {H0, B0}, object |-> Object0],
              [datagroups |-> {H1, B1}, object |-> Object1],
              [datagroups |-> {H2a, H2b, B2a, B2b}, object |-> Object2]>>

\* (type, segment_index) does not decrease along the datagroups.
SortedByKey(datagroups) ==
    \A a, b \in 1..Len(datagroups) : a < b => KeyLeq(datagroups[a], datagroups[b])

\* What C11 says of a run that has read datagroups of one object alone, in
\* any order and with repetitions: nothing is emitted while one of them is
\* missing, the object is emitted when the last missing one has arrived,
\* and before all of them could have arrived twice it is emitted once.
EmittedWhenLastArrives(o) ==
    seen # {} /\ seen \subseteq o.datagroups =>
        /\ seen # o.datagroups => emitted = <<>>
        /\ seen = o.datagroups =>
              /\ emitted # <<>>
              /\ \A i \in 1..Len(emitted) : emitted[i] = o.object
              /\ steps < 2 * Cardinality(o.datagroups) => Len(emitted) = 1

\* C11: emission does not depend on the arrival order: for the datagroups
\* of one complete header and one complete body, in every order and with
\* repeated datagroups in between, the object is emitted exactly when the
\* last missing datagroup arrives, with the body in ascending segment
\* order, and after every ingest every cache entry is sorted by
\* (type, segment index).
C11_OrderIndependent ==
    /\ \A n \in 1..Len(Complete) : EmittedWhenLastArrives(Complete[n])
    /\ \A i \in 1..Len(pre) : SortedByKey(pre[i].v)

-----------------------------------------------------------------------------
(* Calls of the encoders, the decoders and the constructors: one call each *)

\* The longest payload a parameter is given.
MaxPayload == 130

\* A byte string of n bytes: 'a' * n.
Bytes(n) == [i \in 1..n |-> 97]

\* The header parameters the encoders are called on.
Parameters ==
    {MimeType(Bytes(n)) : n \in 0..MaxPayload}
    \cup {ContentName(Bytes(n), c) : n \in 0..4, c \in CharacterSet}
    \cup {Priority(p) : p \in {1, 4, 255}}
    \cup {Compression(t) : t \in CompressionType}

\* p.tobytes()
Tobytes(p) ==
    /\ call = NoCall
    /\ call' = [op |-> "tobytes", arg |-> p, result |-> tobytes(p)]
    /\ UNCHANGED run

\* HeaderParameter.frombytes(p.tobytes())
Frombytes(p) ==
    /\ call = NoCall
    /\ call' = [op |-> "frombytes", arg |-> p, data |-> tobytes(p),
                result |-> frombytes(tobytes(p))]
    /\ UNCHANGED run

\* The longest offset of whole minutes, and of whole hours, that
\* encode_relative_time is called on.
MaxOffsetMinutes == 130
MaxOffsetHours == 1560

\* The offsets, in seconds.
Offsets ==
    {60 * m : m \in 1..MaxOffsetMinutes} \cup {3600 * h : h \in 1..MaxOffsetHours}

\* encode_relative_time(timedelta(seconds=total_seconds))
EncodeRelativeTime(total_seconds) ==
    /\ call = NoCall
    /\ call' = [op |-> "encode_relative_time", arg |-> total_seconds,
                result |-> encode_relative_time(timedelta(total_seconds))]
    /\ UNCHANGED run

\* The timepoints encode_absolute_time is called on: None, and times on
\* 2010-08-11 (MJD 55419) and the day after.
Timepoints ==
    {NoTimepoint} \cup {datetime(mjd, hour, minute, second, microsecond) :
                    mjd \in {55419, 55420}, hour \in {0, 12, 23},
                    minute \in {0, 34, 59}, second \in {0, 11, 59},
                    microsecond \in {0, 678000, 999999}}

\* encode_absolute_time(timepoint)
EncodeAbsoluteTime(timepoint) ==
    /\ call = NoCall
    /\ call' = [op |-> "encode_absolute_time", arg |-> timepoint,
                result |-> encode_absolute_time(timepoint)]
    /\ UNCHANGED run

\* decode_absolute_time(data), data the encoding of a timepoint.
DecodeAbsoluteTime(timepoint) ==
    /\ call = NoCall
    /\ call' = [op |-> "decode_absolute_time", arg |-> timepoint,
                data |-> encode_absolute_time(timepoint),
                result |-> decode_absolute_time(encode_absolute_time(timepoint))]
    /\ UNCHANGED run

\* The integers Priority is constructed with.
Priorities == -3..260

\* Priority(priority)
ConstructPriority(priority) ==
    /\ call = NoCall
    /\ call' = [op |-> "Priority", arg |-> priority, result |-> NewPriority(priority)]
    /\ UNCHANGED run

\* A directory entry whose parameters all decode: what the entry holds, and
\* its bytes.
GoodEntry(transport_id, body_size, content_type, parameters) ==
    [transport_id |-> transport_id, content_type |-> content_type,
     parameters |-> parameters, broken |-> FALSE,
     data |-> DirectoryEntry(transport_id, HeaderData(body_size, content_type, parameters))]

\* A directory entry with the bytes of a parameter that fails to decode
\* between the parameters front and back; the header size covers all of
\* them.  parameters are the ones in front of the failure.
BrokenEntry(transport_id, body_size, content_type, front, failing, back) ==
    LET encoded == Concat([n \in 1..Len(front) |-> tobytes(front[n])]) \o failing
                   \o Concat([n \in 1..Len(back) |-> tobytes(back[n])])
    IN  [transport_id |-> transport_id, content_type |-> content_type,
         parameters |-> front, broken |-> TRUE,
         data |-> DirectoryEntry(transport_id,
                     CoreHeader(body_size, 7 + Len(encoded), content_type) \o encoded)]

\* The entries a directory of the model is made of, by position, each in a
\* form that decodes and in a form with a failing parameter: a Compression
\* of a type that CompressionType does not have, a parameter id without a
\* decoder, and a payload length that runs past the end of the directory.
Entries ==
    <<{GoodEntry(5, 1, Type0, <<NameZ, Priority(4)>>),
       BrokenEntry(5, 1, Type0, <<NameZ>>, <<81, 7>>, <<Priority(4)>>)},
      {GoodEntry(1, 2, Type1Dir, <<NameD>>),
       BrokenEntry(1, 2, Type1Dir, <<>>, <<63>>, <<NameD>>)},
      {GoodEntry(2, 2, Type2, <<NameB, Priority(5)>>),
       BrokenEntry(2, 2, Type2, <<NameB, Priority(5)>>, <<208, 100>>, <<>>)}>>

\* The most entries in a directory.
MaxEntries == 3

\* The directories decode_directory_object is called on: the object count
\* the header signals, at least that many entries, and the bytes after the
\* last entry.
Directories ==
    {[number_of_objects |-> n, entries |-> es, trailing |-> t] :
        n \in 0..Min(MaxEntries, Len(Entries)),
        es \in UNION {[1..m -> UNION {Entries[k] : k \in 1..Len(Entries)}] :
                         m \in 0..Min(MaxEntries, Len(Entries))},
        t \in {<<>>, <<0>>}}

\* The bytes of a directory.
DirectoryBytes(d) ==
    LET body == Concat([k \in 1..Len(d.entries) |-> d.entries[k].data]) \o d.trailing
    IN  DirectoryHeader(13 + Len(body), d.number_of_objects) \o body

\* The directory d with every entry in its form that decodes.
Repaired(d) ==
    [d EXCEPT !.entries = [k \in 1..Len(d.entries) |->
        CHOOSE e \in Entries[k] : ~e.broken]]

\* decode_directory_object(data), and the same call on the repaired directory.
DecodeDirectoryObject(d) ==
    /\ call = NoCall
    /\ Len(d.entries) >= d.number_of_objects
    /\ \A k \in 1..Len(d.entries) : d.entries[k] \in Entries[k]
    /\ call' = [op |-> "decode_directory_object", arg |-> d,
                result |-> decode_directory_object(DirectoryBytes(d)),
                repaired |-> decode_directory_object(DirectoryBytes(Repaired(d)))]
    /\ UNCHANGED run

\* The most calls made on one MotObject, and the most parameters in one
\* header.
MaxCalls == 3

\* The parameters given to a MotObject: two of each of three classes.
Attachable == {NameA, NameB, Priority(4), Priority(5), MimeType(<<97>>), MimeType(<<98>>)}

\* The record of a call that set or removed the parameter of a class.
Added(param) == [op |-> "add", kind |-> param.kind, param |-> param]
Removed(clazz) == [op |-> "remove", kind |-> clazz, param |-> [kind |-> clazz]]

\* MotObject(name, body, contenttype, transport_id)
NewMotObject(name) ==
    /\ call = NoCall
    /\ call' = [op |-> "MotObject", ok |-> TRUE, history |-> <<Added(name)>>,
                object |-> MotObject(name, <<7>>, Type0, 7)]
    /\ UNCHANGED run

\* object.add_parameter(param)
AddParameter(param) ==
    /\ call.op = "MotObject"
    /\ Len(call.history) <= MaxCalls
    /\ call' = [call EXCEPT !.ok = TRUE,
                            !.history = Append(@, Added(param)),
                            !.object = add_parameter(@, param)]
    /\ UNCHANGED run

\* object.remove_parameter(clazz)
RemoveParameter(clazz) ==
    /\ call.op = "MotObject"
    /\ Len(call.history) <= MaxCalls
    /\ \E r \in {remove_parameter(call.object, clazz)} :
          call' = [call EXCEPT !.ok = r.ok,
                               !.history = IF r.ok THEN Append(@, Removed(clazz)) ELSE @,
                               !.object = r.object]
    /\ UNCHANGED run

\* The parameter lists of the headers compile_object reads.
ParameterLists == UNION {[1..m -> Attachable] : m \in 1..MaxCalls}

\* compile_object(7, cache) on a cache that holds object 7 complete: its
\* header and body, or (inDirectory) its body and a directory with its
\* entry.
CompileObject(params, inDirectory) ==
    /\ call = NoCall
    /\ LET header == HeaderData(1, Type0, params)
           first == IF inDirectory
                    THEN Datagroup(DIRECTORY, 9, 0, TRUE,
                                   DirectoryOf(<<DirectoryEntry(7, header)>>))
                    ELSE Datagroup(HEADER, 7, 0, TRUE, header)
           body == Datagroup(BODY, 7, 0, TRUE, <<7>>)
           names == SelectSeq(params, LAMBDA param : param.kind = "ContentName")
       IN  \E r \in {compile_object(7, ingest(ingest(<<>>, first), body), NoDirectory)} :
             call' = [op |-> "compile_object", ok |-> r.ok,
                      history |-> IF r.ok
                                  THEN <<Added(names[Len(names)])>>
                                       \o [n \in 1..Len(params) |-> Added(params[n])]
                                  ELSE <<>>,
                      object |-> r.object]
    /\ UNCHANGED run

\* The most segments a header is delivered in.
MaxSegments == 3

\* The parameter lists of the headers delivered in segments.
SegmentedLists ==
    {<<NameA>>, <<NameA, Priority(4)>>, <<NameB, MimeType(<<97>>), Priority(5)>>}

\* The ways to cut a header of len bytes into at most MaxSegments segments,
\* none of them empty: the byte counts in front of each cut, ascending.
Cuts(len) ==
    UNION {{c \in [1..m -> 1..(len - 1)] : \A k \in 2..m : c[k - 1] < c[k]} :
             m \in 0..(MaxSegments - 1)}

\* The header datagroups of object 7 for a header cut at cuts.
HeaderSegments(header, cuts) ==
    LET n == Len(cuts) + 1
        from(k) == IF k = 1 THEN 0 ELSE cuts[k - 1]
        to(k) == IF k = n THEN Len(header) ELSE cuts[k]
    IN  [k \in 1..n |-> Datagroup(HEADER, 7, k - 1, k = n,
                                  SubSeq(header, from(k) + 1, to(k)))]

RECURSIVE IngestAll(_, _)
\* The cache after "for d in data" has ingested datagroups in order.
IngestAll(c, datagroups) ==
    IF datagroups = <<>> THEN c
    ELSE Bind(ingest(c, Head(datagroups)),
              LAMBDA ingested : IngestAll(ingested, Tail(datagroups)))

\* compile_object(7, cache) on a cache that holds the body of object 7 and
\* its header in Len(cuts) + 1 segments; single is the same call with the
\* header in one segment, header what the loop over the header datagroups
\* left.
CompileSegmented(params, cuts) ==
    /\ call = NoCall
    /\ LET header == HeaderData(1, Type0, params)
           body == Datagroup(BODY, 7, 0, TRUE, <<7>>)
       IN  \E segmented \in {IngestAll(<<>>, HeaderSegments(header, cuts) \o <<body>>)},
              whole \in {IngestAll(<<>>, HeaderSegments(header, <<>>) \o <<body>>)} :
             call' = [op |-> "compile_segmented",
                      arg |-> [params |-> params, cuts |-> cuts],
                      complete |-> is_complete(7, segmented),
                      header |-> CompileHeader(OfType(Get(segmented, 7, <<>>), HEADER),
                                               <<>>, <<>>, NoContentType),
                      result |-> compile_object(7, segmented, NoDirectory),
                      single |-> compile_object(7, whole, NoDirectory)]
    /\ UNCHANGED run

NextCodec ==
    \/ \E p \in Parameters : Tobytes(p)
    \/ \E p \in Parameters : Frombytes(p)
    \/ \E total_seconds \in Offsets : EncodeRelativeTime(total_seconds)
    \/ \E timepoint \in Timepoints : EncodeAbsoluteTime(timepoint)
    \/ \E timepoint \in Timepoints : DecodeAbsoluteTime(timepoint)
    \/ \E priority \in Priorities : ConstructPriority(priority)
    \/ \E d \in Directories : DecodeDirectoryObject(d)
    \/ \E name \in {NameA, NameB} : NewMotObject(name)
    \/ \E param \in Attachable : AddParameter(param)
    \/ \E clazz \in {"ContentName", "MimeType", "Priority"} : RemoveParameter(clazz)
    \/ \E params \in ParameterLists, inDirectory \in BOOLEAN :
          CompileObject(params, inDirectory)
    \/ \E params \in SegmentedLists :
          \E cuts \in Cuts(Len(HeaderData(1, Type0, params))) :
             CompileSegmented(params, cuts)

SpecCodec == Init /\ [][NextCodec]_vars

-----------------------------------------------------------------------------
(* C12 *)

\* The bytes C12 says tobytes gives for a parameter id and a payload.
TobytesAsSpecified(id, data) ==
    LET n == Len(data)
    IN  IF n = 0 THEN <<id>>
        ELSE IF n = 1 THEN <<64 + id>> \o data
        ELSE IF n <= 4 THEN <<128 + id>> \o data \o [i \in 1..(4 - n) |-> 0]
        ELSE IF n <= 127 THEN <<192 + id, n>> \o data
        ELSE <<192 + id, 128 + (n \div 256), n % 256>> \o data

\* C12: tobytes chooses the preamble by the payload length alone: PLI=0
\* for no payload, PLI=1 for one byte, PLI=2 and the payload zero-padded to
\* 4 bytes for 2, 3 or 4 bytes, PLI=3 with Ext=0 and a 7-bit length up to
\* 127 bytes, PLI=3 with Ext=1 and a 15-bit length above; the 6-bit
\* parameter id follows the PLI.
C12_PreambleByLength ==
    call.op = "tobytes" =>
        call.result = TobytesAsSpecified(call.arg.id, encode_data(call.arg))

-----------------------------------------------------------------------------
(* C13 *)

\* C13: the parameter round trip: for every header parameter p,
\* HeaderParameter.frombytes(p.tobytes()) returns a parameter equal to p
\* and a consumed length equal to len(p.tobytes()).
C13_RoundTrip ==
    call.op = "frombytes" =>
        /\ call.result.ok
        /\ call.result.param = call.arg
        /\ call.result.size = Len(call.data)

-----------------------------------------------------------------------------
(* C14 *)

\* The byte C14 says encode_relative_time gives for an offset of d seconds:
\* the granularity of the smallest band that covers d and d in steps of
\* that band, rounded down; no byte above 63 days.
RelativeTimeAsSpecified(d) ==
    IF d < 127 * 60 THEN [ok |-> TRUE, bytes |-> <<0 * 64 + d \div 120>>]
    ELSE IF d < 1891 * 60 THEN [ok |-> TRUE, bytes |-> <<1 * 64 + d \div 1800>>]
    ELSE IF d < 127 * 3600 THEN [ok |-> TRUE, bytes |-> <<2 * 64 + d \div 7200>>]
    ELSE IF d <= 63 * 86400 THEN [ok |-> TRUE, bytes |-> <<3 * 64 + d \div 86400>>]
    ELSE [ok |-> FALSE, error |-> "ValueError"]

\* C14: for 0 < d <= 63 days encode_relative_time(d) does not raise and
\* returns one byte: the 2-bit granularity of the smallest band covering d
\* (2 minutes, 30 minutes, 2 hours, 1 day) and the 6-bit interval d divided
\* by the band's step, rounded down; for d > 63 days it raises.
C14_SmallestBand ==
    call.op = "encode_relative_time" => call.result = RelativeTimeAsSpecified(call.arg)

-----------------------------------------------------------------------------
(* C15 *)

\* The bytes C15 says encode_absolute_time gives for a timepoint t that is
\* not null: validity bit 1, the MJD in 17 bits, two reserved bits 0, the
\* UTC flag, hour and minute, and in the long form second and millisecond.
AbsoluteTimeAsSpecified(t) ==
    LET flag == IF t.second # 0 THEN 1 ELSE 0
        short == <<128 + t.mjd \div 1024,
                   (t.mjd \div 4) % 256,
                   (t.mjd % 4) * 64 + flag * 8 + t.hour \div 4,
                   (t.hour % 4) * 64 + t.minute>>
        millisecond == t.microsecond \div 1000
    IN  IF flag = 0 THEN short
        ELSE short \o <<t.second * 4 + millisecond \div 256, millisecond % 256>>

\* C15: encode_absolute_time returns 4 zero bytes for a null timepoint;
\* for any other it returns validity bit 1, a 17-bit MJD, two reserved bits
\* 0 and the UTC flag, in the 4-byte short form (flag 0, hour, minute)
\* exactly when the seconds field is zero and in the 6-byte long form
\* (flag 1, plus second and millisecond) exactly when it is not.
C15_AbsoluteTimeForms ==
    call.op = "encode_absolute_time" =>
        /\ call.arg = NoTimepoint => call.result = <<0, 0, 0, 0>>
        /\ call.arg # NoTimepoint =>
              /\ call.result = AbsoluteTimeAsSpecified(call.arg)
              /\ Len(call.result) = 4 <=> call.arg.second = 0
              /\ Len(call.result) = 6 <=> call.arg.second # 0

\* datetime(2010, 8, 11, 12, 34, 11, 678000) was encoded in the long form,
\* to the bytes the repository's test expects.
C15_LongFormEncoded ==
    /\ call.op = "encode_absolute_time"
    /\ call.arg = datetime(55419, 12, 34, 11, 678000)
    /\ call.result = <<182, 30, 203, 34, 46, 166>>

-----------------------------------------------------------------------------
(* C16 *)

\* C16: decode_absolute_time inverts encode_absolute_time: the all-zero
\* encoding decodes to None, and the encoding of a UTC timepoint t of
\* millisecond precision decodes to the date, hour and minute of t, and in
\* the long form to its second and millisecond too.
C16_AbsoluteTimeRoundTrip ==
    call.op = "decode_absolute_time" =>
        /\ call.data = <<0, 0, 0, 0>> => call.result = NoTimepoint
        /\ (call.arg # NoTimepoint /\ call.arg.microsecond % 1000 = 0) =>
              /\ call.result.mjd = call.arg.mjd
              /\ call.result.hour = call.arg.hour
              /\ call.result.minute = call.arg.minute
              /\ Len(call.data) = 6 =>
                    /\ call.result.second = call.arg.second
                    /\ call.result.microsecond = call.arg.microsecond

-----------------------------------------------------------------------------
(* C17 *)

-----------------------------------------------------------------------------
(* C18 *)

\* C18: decode_directory_object parses exactly the number of entries the
\* directory header signals, whatever bytes follow the last signalled
\* entry, and returns one (ContentType, parameters) value for the transport
\* id of each entry it parsed.
C18_ExactlyObjectCount ==
    (call.op = "decode_directory_object"
        /\ \A k \in 1..Len(call.arg.entries) : ~call.arg.entries[k].broken) =>
        /\ call.result.ok
        /\ DOMAIN call.result.headers =
               {call.arg.entries[k].transport_id : k \in 1..call.arg.number_of_objects}
        /\ \A k \in 1..call.arg.number_of_objects :
               call.result.headers[call.arg.entries[k].transport_id] =
                   [content_type |-> call.arg.entries[k].content_type,
                    parameters |-> call.arg.entries[k].parameters]

-----------------------------------------------------------------------------
(* C19 *)

\* C19: when a parameter of one entry fails to decode, the directory is
\* decoded all the same: the entry keeps the parameters decoded before the
\* failure, and every other entry decodes to what it decodes to in the
\* directory without the failure.
C19_BestEffortPerObject ==
    (call.op = "decode_directory_object" /\ call.repaired.ok) =>
        /\ call.result.ok
        /\ DOMAIN call.result.headers = DOMAIN call.repaired.headers
        /\ \A k \in 1..Len(call.arg.entries) :
              LET entry == call.arg.entries[k]
              IN  call.result.headers[entry.transport_id] =
                      IF entry.broken
                      THEN [content_type |-> entry.content_type,
                            parameters |-> entry.parameters]
                      ELSE call.repaired.headers[entry.transport_id]

\* A directory of three entries was decoded whose first entry fails at its
\* second parameter: the first parameter is kept and both later entries
\* are decoded in full.
C19_LaterEntriesDecoded ==
    /\ call.op = "decode_directory_object"
    /\ Len(call.arg.entries) = 3
    /\ call.arg.entries[1].broken
    /\ ~call.arg.entries[2].broken
    /\ ~call.arg.entries[3].broken
    /\ call.result.ok
    /\ call.result.headers[5].parameters = <<NameZ>>
    /\ call.result.headers[1].parameters = <<NameD>>
    /\ call.result.headers[2].parameters = <<NameB, Priority(5)>>

-----------------------------------------------------------------------------
(* C20 *)

\* The calls of history that set or removed the parameter of class clazz.
CallsOn(history, clazz) == SelectSeq(history, LAMBDA c : c.kind = clazz)

\* The parameters object holds that are of class clazz, under whatever key.
HeldOf(object, clazz) ==
    {c \in DOMAIN object.parameters : object.parameters[c].kind = clazz}

\* C20: after any sequence of add_parameter and remove_parameter calls a
\* MotObject holds at most one parameter of each class, the one added last,
\* and none of a class removed since; the same holds for the object
\* compile_object builds from the parameters of a header or directory entry.
C20_OnePerKindLatestWins ==
    (call.op \in {"MotObject", "compile_object"} /\ call.object # NoObject) =>
        \A clazz \in {"ContentName", "MimeType", "Priority"} :
            LET calls == CallsOn(call.history, clazz)
                held == HeldOf(call.object, clazz)
            IN  IF calls = <<>> \/ calls[Len(calls)].op = "remove"
                THEN held = {}
                ELSE /\ Cardinality(held) = 1
                     /\ \A c \in held : call.object.parameters[c] = calls[Len(calls)].param

\* A MotObject was given a MimeType and then another: it holds the second.
C20_SecondReplacedFirst ==
    /\ call.op = "MotObject"
    /\ call.history = <<Added(NameA), Added(MimeType(<<97>>)), Added(MimeType(<<98>>))>>
    /\ call.object.parameters["MimeType"] = MimeType(<<98>>)
    /\ Cardinality(HeldOf(call.object, "MimeType")) = 1

-----------------------------------------------------------------------------
(* C21 *)

\* C21: for a header delivered in n >= 1 segments compile_object parses
\* the parameters once, from the concatenation of the n header datagroups
\* behind the core header: the parameter list holds each encoded parameter
\* once, and the call gives what it gives for the header in one segment.
C21_SegmentedHeaderParsedOnce ==
    call.op = "compile_segmented" =>
        /\ call.complete
        /\ call.header.ok
        /\ call.header.params = call.arg.params
        /\ call.result.ok
        /\ call.result.object = call.single.object

-----------------------------------------------------------------------------
(* C22 *)

\* The cache c without the entries of the transport ids other than t.
OnlyEntry(c, t) == SelectSeq(c, LAMBDA e : e.k = t)

\* C22: is_complete treats every transport id alike, 0 included: what it
\* finds for the body and for the header of a stored id t is found from the
\* datagroups stored under t, so it is what it finds in the cache that
\* holds the entry of t alone, and it is the rule applied to the type 4 and
\* type 3 datagroups of that entry.
C22_OwnDatagroupsOnly ==
    \A t \in KeySet(pre) : \A type \in {BODY, HEADER} :
        /\ check_type_complete(type, t, t, pre)
               = check_type_complete(type, t, t, OnlyEntry(pre, t))
        /\ check_type_complete(type, t, t, pre) = ContiguousRun(Stored(pre, t, type))

-----------------------------------------------------------------------------
(* C23 *)

\* No two datagroups of the entry have the same type and segment index.
OnePerSegment(datagroups) ==
    \A i, j \in 1..Len(datagroups) :
        (/\ datagroups[i].type = datagroups[j].type
         /\ datagroups[i].segment_index = datagroups[j].segment_index) => i = j

\* C23: after any sequence of ingests every cache entry holds at most one
\* datagroup per type and segment index, so a second datagroup of a type
\* and segment index with other data or another last flag does not keep
\* the transport id from becoming complete.
C23_OnePerTypeAndSegment ==
    /\ \A i \in 1..Len(pre) : OnePerSegment(pre[i].v)
    /\ \A i \in 1..Len(cache) : OnePerSegment(cache[i].v)

=============================================================================
